---- MODULE Spec2Model ----
(***************************************************************************)
(* Model of the Flare Insurance dApp backend (src/backend): the quote      *)
(* signer (signing_utils.py), the request handlers (main.py), the flight   *)
(* status client (aviation_api.py), the request schema (schemas.py) and    *)
(* the pricing collaborator (ai_agent.py).                                 *)
(*                                                                         *)
(* Python integers are unbounded and Python floats are IEEE-754 binary64;  *)
(* TLC integers are 32 bit.  Unbounded naturals are therefore sequences of *)
(* limbs (little endian, base 2^15, no high zero limb; zero is <<>>), and  *)
(* a float is a sign, a mantissa below 2^53 and a binary exponent.         *)
(***************************************************************************)
EXTENDS Integers, Sequences, FiniteSets, TLC

(***************************************************************************)
(* Unbounded naturals.                                                     *)
(***************************************************************************)
LimbBits == 15

LimbBase == 2 ^ LimbBits

RECURSIVE Norm(_)
Norm(a) ==
    IF a = <<>> THEN <<>>
    ELSE IF a[Len(a)] = 0 THEN Norm(SubSeq(a, 1, Len(a) - 1))
    ELSE a

RECURSIVE BigOfInt(_)
BigOfInt(n) ==
    IF n = 0 THEN <<>>
    ELSE <<n % LimbBase>> \o BigOfInt(n \div LimbBase)

RECURSIVE BigAddC(_, _, _)
BigAddC(a, b, c) ==
    IF a = <<>> /\ b = <<>>
    THEN IF c = 0 THEN <<>> ELSE <<c>>
    ELSE LET x == IF a = <<>> THEN 0 ELSE Head(a)
             y == IF b = <<>> THEN 0 ELSE Head(b)
             s == x + y + c
         IN  <<s % LimbBase>>
             \o BigAddC(IF a = <<>> THEN <<>> ELSE Tail(a),
                        IF b = <<>> THEN <<>> ELSE Tail(b),
                        s \div LimbBase)

BigAdd(a, b) == BigAddC(a, b, 0)

RECURSIVE BigMulSmallC(_, _, _)
BigMulSmallC(a, k, c) ==
    IF a = <<>>
    THEN IF c = 0 THEN <<>> ELSE <<c>>
    ELSE LET p == Head(a) * k + c
         IN  <<p % LimbBase>> \o BigMulSmallC(Tail(a), k, p \div LimbBase)

\* a * k for 0 <= k < LimbBase
BigMulSmall(a, k) == Norm(BigMulSmallC(a, k, 0))

RECURSIVE BigMul(_, _)
BigMul(a, b) ==
    IF a = <<>> \/ b = <<>> THEN <<>>
    ELSE Norm(BigAdd(BigMulSmall(a, Head(b)),
                     IF Tail(b) = <<>> THEN <<>>
                     ELSE <<0>> \o BigMul(a, Tail(b))))

RECURSIVE BigDivRec(_, _)
BigDivRec(a, d) ==
    IF a = <<>> THEN [q |-> <<>>, r |-> 0]
    ELSE LET hi  == BigDivRec(Tail(a), d)
             cur == hi.r * LimbBase + Head(a)
         IN  [q |-> <<cur \div d>> \o hi.q, r |-> cur % d]

\* quotient and remainder of a by d, for 0 < d <= LimbBase
BigDivSmall(a, d) ==
    LET res == BigDivRec(a, d) IN [q |-> Norm(res.q), r |-> res.r]

RECURSIVE SmallBitLen(_)
SmallBitLen(n) == IF n = 0 THEN 0 ELSE 1 + SmallBitLen(n \div 2)

BigBitLen(a) ==
    IF a = <<>> THEN 0
    ELSE LimbBits * (Len(a) - 1) + SmallBitLen(a[Len(a)])

\* a * 2^s
BigShl(a, s) ==
    IF a = <<>> THEN <<>>
    ELSE [i \in 1..(s \div LimbBits) |-> 0] \o BigMulSmall(a, 2 ^ (s % LimbBits))

\* floor(a / 2^s)
BigShr(a, s) ==
    IF s \div LimbBits >= Len(a) THEN <<>>
    ELSE BigDivSmall(SubSeq(a, (s \div LimbBits) + 1, Len(a)), 2 ^ (s % LimbBits)).q

\* a mod 2^s # 0
BigLowBits(a, s) ==
    \/ \E i \in 1..Len(a) : i <= s \div LimbBits /\ a[i] # 0
    \/ /\ s \div LimbBits < Len(a)
       /\ a[(s \div LimbBits) + 1] % (2 ^ (s % LimbBits)) # 0

BigOdd(a) == a # <<>> /\ a[1] % 2 = 1

RECURSIVE BigLess(_, _)
BigLess(a, b) ==
    IF Len(a) # Len(b) THEN Len(a) < Len(b)
    ELSE IF a = <<>> THEN FALSE
    ELSE IF a[Len(a)] # b[Len(b)] THEN a[Len(a)] < b[Len(b)]
    ELSE BigLess(SubSeq(a, 1, Len(a) - 1), SubSeq(b, 1, Len(b) - 1))

RECURSIVE BigPow10(_)
BigPow10(n) == IF n = 0 THEN <<1>> ELSE BigMulSmall(BigPow10(n - 1), 10)

\* floor(a / 10^n) and whether the division left a remainder
RECURSIVE BigDivPow10(_, _)
BigDivPow10(a, n) ==
    IF n = 0 THEN [q |-> a, inexact |-> FALSE]
    ELSE LET step == IF n >= 4 THEN 4 ELSE 1
             one  == BigDivSmall(a, 10 ^ step)
             rest == BigDivPow10(one.q, n - step)
         IN  [q |-> rest.q, inexact |-> rest.inexact \/ one.r # 0]

\* A Python int: sign and magnitude.
PyInt(neg, mag) == [neg |-> neg /\ mag # <<>>, mag |-> mag]

(***************************************************************************)
(* IEEE-754 binary64 as Python floats use it.  A finite float is           *)
(* (-1)^neg * m * 2^e with m < 2^53.  Every result is rounded to nearest,  *)
(* ties to even.  Results above the largest double become infinity; the    *)
(* subnormal range is outside the amounts the model draws.  Python         *)
(* evaluates an operand once, before the operation: an operator does the   *)
(* same by binding a name to the operand's value, as a in                  *)
(* CHOOSE r \in {f(a) : a \in {x}} : TRUE, which is f(x).                   *)
(***************************************************************************)
MantBits == 53

MaxExp == 1024

\* the canonical form of a finite float: odd mantissa, or zero
RECURSIVE Fin(_, _, _)
Fin(neg, m, e) ==
    IF m = <<>> THEN [cls |-> "fin", neg |-> neg, m |-> <<>>, e |-> 0]
    ELSE IF m[1] = 0 THEN Fin(neg, Tail(m), e + LimbBits)
    ELSE IF m[1] % 2 = 0 THEN Fin(neg, BigShr(m, 1), e + 1)
    ELSE [cls |-> "fin", neg |-> neg, m |-> m, e |-> e]

Inf(neg) == [cls |-> "inf", neg |-> neg, m |-> <<>>, e |-> 0]

NaN == [cls |-> "nan", neg |-> FALSE, m |-> <<>>, e |-> 0]

\* a finite float, or infinity above the largest double
FinOrInf(neg, m, ex) == IF ex + MantBits > MaxExp THEN Inf(neg) ELSE Fin(neg, m, ex)

\* the double nearest to (-1)^neg * (p + sticky fraction) * 2^e: p is cut
\* to MantBits bits (q), rounded up when the bits cut off are more than
\* half a unit or exactly half with q odd, and cut once more when the
\* rounding carried into a further bit
RoundToDouble(neg, p, e, sticky) ==
    CHOOSE r \in
        {IF BigBitLen(v) <= MantBits THEN Fin(neg, v, e)
         ELSE CHOOSE rounded \in
                  {IF BigBitLen(m1) > MantBits
                   THEN FinOrInf(neg, BigShr(m1, 1), e + s + 1)
                   ELSE FinOrInf(neg, m1, e + s)
                   : m1 \in {IF /\ BigOdd(BigShr(v, s - 1))
                                 /\ (sticky \/ BigLowBits(v, s - 1) \/ BigOdd(q))
                              THEN BigAdd(q, <<1>>)
                              ELSE q : q \in {BigShr(v, s)}}} : TRUE
         : v \in {p}, s \in {BigBitLen(p) - MantBits}} : TRUE

\* float("<n>e-<d>"): the double nearest to the decimal n / 10^d
FloatOfDecimal(neg, n, d) ==
    LET k == 64 + 4 * d
    IN  CHOOSE r \in {RoundToDouble(neg, div.q, 0 - k, div.inexact)
                      : div \in {BigDivPow10(BigShl(BigOfInt(n), k), d)}} : TRUE

\* float(i) for a Python int i
FloatOfInt(i) == RoundToDouble(i.neg, i.mag, 0, FALSE)

\* x * y on floats
FloatMul(x, y) ==
    CHOOSE r \in
        {IF a.cls = "nan" \/ b.cls = "nan" THEN NaN
         ELSE IF a.cls = "inf" \/ b.cls = "inf"
         THEN IF (a.cls = "fin" /\ a.m = <<>>) \/ (b.cls = "fin" /\ b.m = <<>>)
              THEN NaN
              ELSE Inf(a.neg # b.neg)
         ELSE RoundToDouble(a.neg # b.neg, BigMul(a.m, b.m), a.e + b.e, FALSE)
         : a \in {x}, b \in {y}} : TRUE

\* int(x): truncation toward zero; ValueError on nan, OverflowError on inf
IntOfFloat(x) ==
    CHOOSE r \in
        {IF a.cls = "nan" THEN [ok |-> FALSE, exc |-> "ValueError"]
         ELSE IF a.cls = "inf" THEN [ok |-> FALSE, exc |-> "OverflowError"]
         ELSE [ok  |-> TRUE,
               val |-> PyInt(a.neg, IF a.e >= 0 THEN BigShl(a.m, a.e)
                                    ELSE BigShr(a.m, 0 - a.e))]
         : a \in {x}} : TRUE

\* x + y for floats of the same sign (every sum the program forms adds
\* non-negative terms)
FloatAdd(x, y) ==
    CHOOSE r \in
        {IF a.cls = "nan" \/ b.cls = "nan" THEN NaN
         ELSE IF a.cls = "inf" \/ b.cls = "inf"
         THEN IF a.cls = "inf" /\ b.cls = "inf" /\ a.neg # b.neg THEN NaN
              ELSE IF a.cls = "inf" THEN a ELSE b
         ELSE LET e  == IF a.e <= b.e THEN a.e ELSE b.e
                  aa == BigShl(a.m, a.e - e)
                  ab == BigShl(b.m, b.e - e)
              IN  IF a.neg = b.neg THEN RoundToDouble(a.neg, BigAdd(aa, ab), e, FALSE)
                  ELSE NaN
         : a \in {x}, b \in {y}} : TRUE

\* x < y on finite non-negative floats
FloatLess(x, y) ==
    \E a \in {x}, b \in {y} :
        LET e == IF a.e <= b.e THEN a.e ELSE b.e
        IN  BigLess(BigShl(a.m, a.e - e), BigShl(b.m, b.e - e))

(***************************************************************************)
(* Python strings are sequences of one-character strings.                  *)
(***************************************************************************)
UpperCase ==
    <<"A", "B", "C", "D", "E", "F", "G", "H", "I", "J", "K", "L", "M",
      "N", "O", "P", "Q", "R", "S", "T", "U", "V", "W", "X", "Y", "Z">>

LowerCase ==
    <<"a", "b", "c", "d", "e", "f", "g", "h", "i", "j", "k", "l", "m",
      "n", "o", "p", "q", "r", "s", "t", "u", "v", "w", "x", "y", "z">>

Digits == <<"0", "1", "2", "3", "4", "5", "6", "7", "8", "9">>

LowerOf == [c \in {UpperCase[i] : i \in 1..26} |->
               LowerCase[CHOOSE i \in 1..26 : UpperCase[i] = c]]

UpperOf == [c \in {LowerCase[i] : i \in 1..26} |->
               UpperCase[CHOOSE i \in 1..26 : LowerCase[i] = c]]

LowerChar(c) == IF c \in DOMAIN LowerOf THEN LowerOf[c] ELSE c

UpperChar(c) == IF c \in DOMAIN UpperOf THEN UpperOf[c] ELSE c

\* str.lower()
Lower(s) == [i \in 1..Len(s) |-> LowerChar(s[i])]

\* str.startswith(p)
StartsWith(s, p) == Len(s) >= Len(p) /\ SubSeq(s, 1, Len(p)) = p

Rep(c, n) == [i \in 1..n |-> c]

\* str(n) for a small non-negative machine integer
RECURSIVE StrOfNat(_)
StrOfNat(n) ==
    IF n < 10 THEN <<Digits[n + 1]>>
    ELSE StrOfNat(n \div 10) \o <<Digits[(n % 10) + 1]>>

\* str(i) for a non-negative Python int magnitude
RECURSIVE StrOfBig(_)
StrOfBig(a) ==
    IF Len(a) <= 1 THEN StrOfNat(IF a = <<>> THEN 0 ELSE a[1])
    ELSE LET qr == BigDivSmall(a, 10)
         IN  StrOfBig(qr.q) \o <<Digits[qr.r + 1]>>

\* str(i) for a Python int
StrOfInt(i) == IF i.neg THEN <<"-">> \o StrOfBig(i.mag) ELSE StrOfBig(i.mag)

(***************************************************************************)
(* QuoteSigner (signing_utils.py).  The cryptographic primitives of the    *)
(* libraries are symbolic: a SHA-256 digest is a term over its preimage,   *)
(* an address is a term over the secret scalar, a signature is a term over *)
(* the scalar and the signed digest.  Distinct terms are distinct values,  *)
(* which is the no-collision assumption.                                   *)
(***************************************************************************)
Ok(v) == [ok |-> TRUE, val |-> v]

Raise(e) == [ok |-> FALSE, exc |-> e]

\* hashlib.sha256(data).hexdigest()
Sha256Hex(data) == [sha256 |-> data]

\* the secret scalar of a hex key, with or without the 0x prefix
Scalar(key) == IF StartsWith(key, <<"0", "x">>) THEN SubSeq(key, 3, Len(key)) ELSE key

\* Account.from_key(private_key)
AccountFromKey(private_key) == [address |-> [address_of |-> Scalar(private_key)]]

\* QuoteSigner.__init__
QuoteSignerInit(private_key, domain_name, version, chain_id) ==
    LET key == IF ~StartsWith(private_key, <<"0", "x">>)
               THEN <<"0", "x">> \o private_key
               ELSE private_key
    IN  [private_key |-> key,
         account     |-> AccountFromKey(key),
         domain_name |-> domain_name,
         version     |-> version,
         chain_id    |-> chain_id]

ZeroAddress == <<"0", "x">> \o Rep("0", 40)

\* the domain without the configured chain: chain id 1
GetDomainSeparator_ChainOne(self) ==
    [name              |-> self.domain_name,
     version           |-> self.version,
     chainId           |-> 1,
     verifyingContract |-> ZeroAddress]

\* QuoteSigner._get_domain_separator
GetDomainSeparator(self) ==
    [name              |-> self.domain_name,
     version           |-> self.version,
     chainId           |-> self.chain_id,
     verifyingContract |-> ZeroAddress]

\* the hashed string with the holder as given
FlightIdData_CaseKept(flight_number, flight_date, user_address) ==
    flight_number \o <<":">> \o flight_date \o <<":">> \o user_address

\* QuoteSigner.create_flight_id: sha256 of "number:date:holder.lower()",
\* first 40 hex characters, 0x prefix
FlightIdData(flight_number, flight_date, user_address) ==
    flight_number \o <<":">> \o flight_date \o <<":">> \o Lower(user_address)

\* create_flight_id hashing the flight number and the holder only
create_flight_id_NoDate(self, flight_number, flight_date, user_address) ==
    [prefix |-> <<"0", "x">>,
     hex40  |-> Sha256Hex(flight_number \o <<":">> \o Lower(user_address))]

create_flight_id(self, flight_number, flight_date, user_address) ==
    [prefix |-> <<"0", "x">>,
     hex40  |-> Sha256Hex(FlightIdData(flight_number, flight_date, user_address))]

Ten18 == PyInt(FALSE, BigPow10(18))

\* QuoteSigner.flr_to_wei: int(flr_amount * 10**18)
flr_to_wei(flr_amount) == IntOfFloat(FloatMul(flr_amount, FloatOfInt(Ten18)))

\* a conversion that returns the whole FLR of the amount, str(wei // 10**18)
wei_to_flr_WholeFlr(wei_amount) ==
    StrOfInt(PyInt(wei_amount.neg, BigDivPow10(wei_amount.mag, 18).q))

\* QuoteSigner.wei_to_flr: str(wei_amount)
wei_to_flr(wei_amount) == StrOfInt(wei_amount)

\* dict.get(key, default)
Get(d, key, default) == IF key \in DOMAIN d THEN d[key] ELSE default

Max(a, b) == IF a >= b THEN a ELSE b

(***************************************************************************)
(* AviationStackClient.check_contract_conditions (aviation_api.py).        *)
(***************************************************************************)
\* check_contract_conditions with a strict comparison
check_contract_conditions_Strict(flight_data, delay_threshold_minutes) ==
    LET delay_minutes == Max(Get(flight_data, "departure_delay_minutes", 0),
                             Get(flight_data, "arrival_delay_minutes", 0))
        condition_met == delay_minutes > delay_threshold_minutes
    IN  [condition_met     |-> condition_met,
         delay_minutes     |-> delay_minutes,
         threshold_minutes |-> delay_threshold_minutes,
         flight_status     |-> Get(flight_data, "status", "unknown"),
         payout_eligible   |-> condition_met]

check_contract_conditions(flight_data, delay_threshold_minutes) ==
    LET delay_minutes == Max(Get(flight_data, "departure_delay_minutes", 0),
                             Get(flight_data, "arrival_delay_minutes", 0))
        condition_met == delay_minutes >= delay_threshold_minutes
    IN  [condition_met     |-> condition_met,
         delay_minutes     |-> delay_minutes,
         threshold_minutes |-> delay_threshold_minutes,
         flight_status     |-> Get(flight_data, "status", "unknown"),
         payout_eligible   |-> condition_met]

(***************************************************************************)
(* State.  environ is the process environment read at import and startup;  *)
(* quote_signer, risk_analyzer and aviation_client are the module globals  *)
(* of main.py; now is the wall clock in Unix seconds.  resp is the last    *)
(* response sent, with the inputs it was computed from; twin is the        *)
(* signature of the response before it when both are quotes issued on the  *)
(* same holder, flight, date, pricing result and deadline, and None        *)
(* otherwise (history).  call and ret are the argument and the result of a *)
(* function applied on its own.                                            *)
(***************************************************************************)
VARIABLES environ, quote_signer, risk_analyzer, aviation_client, now,
          resp, twin, call, ret

vars == <<environ, quote_signer, risk_analyzer, aviation_client, now,
          resp, twin, call, ret>>

None == [kind |-> "None"]

Pending == [kind |-> "pending"]

serverVars == <<environ, quote_signer, risk_analyzer, aviation_client, now, resp, twin>>

(***************************************************************************)
(* Bounds of the model.                                                    *)
(***************************************************************************)
MaxCents == 60

MaxDelay == 5

(***************************************************************************)
(* flr_to_wei applied on its own to amounts written as decimals.           *)
(***************************************************************************)
Dec(neg, n, d) == [cls |-> "dec", neg |-> neg, n |-> n, d |-> d]

\* the amounts: 0.00 .. MaxCents/100, the documented examples 25.5 and
\* 1e-18, a negative amount, and the non-finite values json.loads accepts
Amounts ==
    {Dec(FALSE, k, 2) : k \in 0..MaxCents}
    \cup {Dec(FALSE, 255, 1), Dec(FALSE, 1, 18), Dec(FALSE, 435, 2), Dec(TRUE, 5, 0)}
    \cup {[cls |-> "inf", neg |-> FALSE], [cls |-> "inf", neg |-> TRUE], [cls |-> "nan"]}

\* the float a decimal literal denotes
FloatOfAmount(a) ==
    IF a.cls = "dec" THEN FloatOfDecimal(a.neg, a.n, a.d)
    ELSE IF a.cls = "inf" THEN Inf(a.neg)
    ELSE NaN

ServerIdle ==
    /\ environ = None
    /\ quote_signer = None
    /\ risk_analyzer = None
    /\ aviation_client = None
    /\ now = 0
    /\ resp = None
    /\ twin = None

InitConv ==
    /\ ServerIdle
    /\ call \in {[fn |-> "flr_to_wei", amount |-> a, flr_amount |-> FloatOfAmount(a)] :
                    a \in Amounts}
    /\ ret = Pending

Apply_flr_to_wei ==
    /\ call.fn = "flr_to_wei"
    /\ ret = Pending
    /\ ret' = flr_to_wei(call.flr_amount)
    /\ UNCHANGED <<serverVars, call>>

NextConv == Apply_flr_to_wei

SpecConv == InitConv /\ [][NextConv]_vars

(***************************************************************************)
(* check_contract_conditions applied on its own.                           *)
(***************************************************************************)
FlightRecords ==
    {[departure_delay_minutes |-> dep, arrival_delay_minutes |-> arr, status |-> st] :
        dep \in 0..MaxDelay, arr \in 0..MaxDelay, st \in {"scheduled", "delayed"}}

InitCond ==
    /\ ServerIdle
    /\ call \in {[fn |-> "check_contract_conditions", flight_data |-> fd,
                  delay_threshold_minutes |-> t] :
                    fd \in FlightRecords, t \in 0..(MaxDelay + 1)}
    /\ ret = Pending

Apply_check_contract_conditions ==
    /\ call.fn = "check_contract_conditions"
    /\ ret = Pending
    /\ ret' = check_contract_conditions(call.flight_data, call.delay_threshold_minutes)
    /\ UNCHANGED <<serverVars, call>>

NextCond == Apply_check_contract_conditions

SpecCond == InitCond /\ [][NextCond]_vars

\* C1: check_contract_conditions reports the larger of the departure and
\* arrival delays, and the condition as met exactly when that delay is at
\* least the threshold: met at equality, not met one minute below.
C1_ConditionInclusive ==
    (call.fn = "check_contract_conditions" /\ ret # Pending) =>
        LET dep == call.flight_data.departure_delay_minutes
            arr == call.flight_data.arrival_delay_minutes
            thr == call.delay_threshold_minutes
        IN  /\ ret.delay_minutes \in {dep, arr}
            /\ ret.delay_minutes >= dep
            /\ ret.delay_minutes >= arr
            /\ ret.condition_met \in BOOLEAN
            /\ ret.condition_met <=> ~(ret.delay_minutes < thr)
            /\ (ret.delay_minutes = thr => ret.condition_met)
            /\ (ret.delay_minutes = thr - 1 => ~ret.condition_met)

\* a call whose delay equals the threshold has been evaluated as met, with
\* the arrival delay the larger one
C1_Witness ==
    /\ call.fn = "check_contract_conditions"
    /\ ret # Pending
    /\ call.flight_data.arrival_delay_minutes > call.flight_data.departure_delay_minutes
    /\ call.flight_data.arrival_delay_minutes = call.delay_threshold_minutes
    /\ ret.condition_met

\* C3: for a non-negative amount with at most 18 decimal digits flr_to_wei
\* returns exactly the amount times 10^18.
C3_ExactMinorUnits ==
    (call.fn = "flr_to_wei" /\ ret # Pending
        /\ call.amount.cls = "dec" /\ ~call.amount.neg /\ call.amount.d <= 18) =>
        /\ ret.ok
        /\ ret.val = PyInt(FALSE, BigMul(BigOfInt(call.amount.n),
                                         BigPow10(18 - call.amount.d)))

(***************************************************************************)
(* create_flight_id applied twice, on any two signers and any two triples  *)
(* of strings (the method itself accepts any strings).                     *)
(***************************************************************************)
PrivateKeys == {<<"0", "x", "a", "1">>, <<"a", "1">>, <<"b", "2">>}

\* "Flare Insurance dApp"
DefaultDomainName ==
    <<"F", "l", "a", "r", "e", " ", "I", "n", "s", "u",
      "r", "a", "n", "c", "e", " ", "d", "A", "p", "p">>

SignerSamples ==
    {QuoteSignerInit(<<"0", "x", "a", "1">>, DefaultDomainName, <<"1">>, 114),
     QuoteSignerInit(<<"b", "2">>, <<"O", "t", "h", "e", "r">>, <<"2">>, 14)}

IdFlightNumbers == {<<"A">>, <<"a">>, <<"A", ":", "B">>}

IdFlightDates == {<<"B">>, <<"C">>, <<"B", ":", "C">>}

IdHolders == {<<"x">>, <<"X">>, <<"y">>, <<":">>, <<"C", ":", "x">>}

IdCalls ==
    {[self |-> sg, flight_number |-> f, flight_date |-> d, user_address |-> h] :
        sg \in SignerSamples, f \in IdFlightNumbers, d \in IdFlightDates, h \in IdHolders}

InitId ==
    /\ ServerIdle
    /\ call \in {[fn |-> "create_flight_id", a |-> a, b |-> b] :
                    a \in {c \in IdCalls : c.self.chain_id = 114}, b \in IdCalls}
    /\ ret = Pending

Apply_create_flight_id ==
    /\ call.fn = "create_flight_id"
    /\ ret = Pending
    /\ ret' = [a |-> create_flight_id(call.a.self, call.a.flight_number,
                                      call.a.flight_date, call.a.user_address),
               b |-> create_flight_id(call.b.self, call.b.flight_number,
                                      call.b.flight_date, call.b.user_address)]
    /\ UNCHANGED <<serverVars, call>>

NextId == Apply_create_flight_id

SpecId == InitId /\ [][NextId]_vars

SameTriple(a, b) ==
    /\ a.flight_number = b.flight_number
    /\ a.flight_date = b.flight_date
    /\ Lower(a.user_address) = Lower(b.user_address)

HasColon(s) == \E i \in 1..Len(s) : s[i] = ":"

\* C5: two calls with the same flight number and date and with holders
\* that are equal after lowercasing return the same identifier, whatever
\* signer (key, domain) each call is made on.
C5_FlightIdDeterministic ==
    (call.fn = "create_flight_id" /\ ret # Pending /\ SameTriple(call.a, call.b)) =>
        ret.a = ret.b

\* two calls on different signers, holders differing only in case, have
\* returned the same identifier
C5_Witness ==
    /\ call.fn = "create_flight_id"
    /\ ret # Pending
    /\ call.a.self # call.b.self
    /\ call.a.user_address # call.b.user_address
    /\ SameTriple(call.a, call.b)
    /\ ret.a = ret.b

\* C6 as claimed: any two triples that differ in a component (holder
\* compared after lowercasing) get different identifiers.
C6_DistinctTriplesDistinctIds ==
    (call.fn = "create_flight_id" /\ ret # Pending /\ ~SameTriple(call.a, call.b)) =>
        ret.a # ret.b

\* C6 amended: two triples that differ in a component get different
\* identifiers when neither flight date contains a colon and the two
\* lowercased holders have the same length; flight numbers and holders may
\* contain colons.
C6_DistinctValidatedTriples ==
    (call.fn = "create_flight_id" /\ ret # Pending /\ ~SameTriple(call.a, call.b)
        /\ ~HasColon(call.a.flight_date) /\ ~HasColon(call.b.flight_date)
        /\ Len(Lower(call.a.user_address)) = Len(Lower(call.b.user_address))) =>
        ret.a # ret.b

\* two triples with a colon in a flight number and in a holder, differing
\* only in the flight date, have received different identifiers
C6_Witness ==
    /\ call.fn = "create_flight_id"
    /\ ret # Pending
    /\ HasColon(call.a.flight_number)
    /\ call.a.flight_number = call.b.flight_number
    /\ HasColon(call.a.user_address)
    /\ call.a.user_address = call.b.user_address
    /\ call.a.flight_date # call.b.flight_date
    /\ ~HasColon(call.a.flight_date) /\ ~HasColon(call.b.flight_date)
    /\ ret.a # ret.b

(***************************************************************************)
(* Request validation (schemas.py).                                        *)
(***************************************************************************)
IsDigit(c) == \E i \in 1..10 : Digits[i] = c

DigitVal(c) == (CHOOSE i \in 1..10 : Digits[i] = c) - 1

RECURSIVE NatOfStr(_)
NatOfStr(s) ==
    IF s = <<>> THEN 0
    ELSE 10 * NatOfStr(SubSeq(s, 1, Len(s) - 1)) + DigitVal(s[Len(s)])

AllDigits(s) == s # <<>> /\ \A i \in 1..Len(s) : IsDigit(s[i])

DaysInMonth(y, m) ==
    IF m = 2
    THEN IF (y % 4 = 0 /\ y % 100 # 0) \/ y % 400 = 0 THEN 29 ELSE 28
    ELSE IF m \in {4, 6, 9, 11} THEN 30 ELSE 31

\* datetime.strptime(v, '%Y-%m-%d') succeeds: a four-digit year, a month
\* and a day of one or two digits, separated by '-', naming a real day
StrptimeOk(v) ==
    \E i, j \in 1..Len(v) :
        /\ i < j
        /\ v[i] = "-" /\ v[j] = "-"
        /\ LET y == SubSeq(v, 1, i - 1)
               m == SubSeq(v, i + 1, j - 1)
               d == SubSeq(v, j + 1, Len(v))
           IN  /\ AllDigits(y) /\ Len(y) = 4
               /\ AllDigits(m) /\ Len(m) <= 2
               /\ AllDigits(d) /\ Len(d) <= 2
               /\ NatOfStr(y) >= 1
               /\ NatOfStr(m) \in 1..12
               /\ NatOfStr(d) \in 1..DaysInMonth(NatOfStr(y), NatOfStr(m))

\* QuoteRequest.validate_address
validate_address(v) ==
    IF ~StartsWith(v, <<"0", "x">>) \/ Len(v) # 42
    THEN Raise("ValueError")
    ELSE Ok(Lower(v))

\* QuoteRequest.validate_date
validate_date(v) == IF StrptimeOk(v) THEN Ok(v) ELSE Raise("ValueError")

\* QuoteRequest(**body): the validated request, or the validation error
QuoteRequest(body) ==
    LET addr == validate_address(body.user_address)
        date == validate_date(body.flight_date)
    IN  IF ~addr.ok \/ ~date.ok THEN Raise("ValidationError")
        ELSE Ok([user_address      |-> addr.val,
                 flight_number     |-> body.flight_number,
                 flight_date       |-> date.val,
                 departure_airport |-> body.departure_airport,
                 arrival_airport   |-> body.arrival_airport])

(***************************************************************************)
(* Address checksum and typed-data signing (web3 / eth_account, called     *)
(* from QuoteSigner.sign_quote).                                           *)
(***************************************************************************)
IsHexChar(c) == c \in {"0", "1", "2", "3", "4", "5", "6", "7", "8", "9",
                        "a", "b", "c", "d", "e", "f"}

IsHexAddress(a) ==
    /\ Len(a) = 42
    /\ StartsWith(Lower(a), <<"0", "x">>)
    /\ \A i \in 3..42 : IsHexChar(LowerChar(a[i]))

\* the i-th nibble of keccak256 of the lowercase hex digits: a symbolic
\* stand-in that depends on the whole string and the position
HexDigits == <<"0", "1", "2", "3", "4", "5", "6", "7", "8", "9",
               "a", "b", "c", "d", "e", "f">>

HexVal == [c \in {HexDigits[k] : k \in 1..16} |->
              (CHOOSE k \in 1..16 : HexDigits[k] = c) - 1]

KeccakNibble(hexdigits, i) ==
    (7 * HexVal[hexdigits[i]] + 3 * HexVal[hexdigits[((i * 5) % 40) + 1]] + i) % 16

\* a checksum that leaves the letters it does not raise in the case they
\* came in
to_checksum_address_KeepCase(a) ==
    IF ~IsHexAddress(a) THEN Raise("ValueError")
    ELSE LET hexdigits == SubSeq(Lower(a), 3, 42)
         IN  Ok(<<"0", "x">> \o
                [i \in 1..40 |-> IF KeccakNibble(hexdigits, i) >= 8
                                 THEN UpperChar(hexdigits[i])
                                 ELSE a[i + 2]])

\* Web3.to_checksum_address: EIP-55 casing of the lowercase hex digits
to_checksum_address(a) ==
    IF ~IsHexAddress(a) THEN Raise("ValueError")
    ELSE LET hexdigits == SubSeq(Lower(a), 3, 42)
         IN  Ok(<<"0", "x">> \o
                [i \in 1..40 |-> IF KeccakNibble(hexdigits, i) >= 8
                                 THEN UpperChar(hexdigits[i])
                                 ELSE hexdigits[i]])

\* a value of ABI type uint256
IsUint256(i) == ~i.neg /\ BigBitLen(i.mag) <= 256

\* encode_structured_data: the typed-data digest of domain and message
encode_structured_data(domain, message) ==
    IF ~IsUint256(message.premiumAmount) \/ message.deadline < 0
    THEN Raise("ValueOutOfBounds")
    ELSE Ok([domain |-> domain, message |-> message])

\* signing with a nonce that depends on what the process did before
SignMessage_FreshNonce(encoded, private_key) ==
    [signed_by |-> Scalar(private_key), digest |-> encoded, k |-> resp.kind]

\* Account.sign_message(encoded, private_key).signature.hex(): RFC 6979
\* signing is a function of the key and the digest
SignMessage(encoded, private_key) == [signed_by |-> Scalar(private_key), digest |-> encoded]

\* Account.recover_message: the address whose key made the signature over
\* this digest; any other digest recovers some unrelated address
RecoverMessage(encoded, signature) ==
    IF signature.digest = encoded
    THEN [address_of |-> signature.signed_by]
    ELSE [address_of |-> <<"?">>]

\* QuoteSigner.get_signer_address
get_signer_address(self) == self.account.address

\* datetime.utcnow(): the naive datetime showing UTC wall time, as seconds
\* of that wall-clock reading since 1970-01-01T00:00:00
UtcNow(clock) == clock

\* naive_datetime.timestamp(): a naive datetime is read as local time of a
\* zone utcoffset seconds east of UTC
NaiveTimestamp(wall, utcoffset) == wall - utcoffset

\* QuoteSigner.calculate_deadline: int((utcnow() + hours).timestamp())
calculate_deadline(clock, utcoffset, hours) ==
    NaiveTimestamp(UtcNow(clock) + hours * 3600, utcoffset)

(***************************************************************************)
(* The pricing collaborator (ai_agent.py).  The text of an LLM reply is    *)
(* abstracted to what the parser reads from it: the JSON object it         *)
(* contains, if one parses, and the number literals the regular            *)
(* expression finds.  hash() of a string is some integer.                  *)
(***************************************************************************)
F(n, d) == FloatOfDecimal(FALSE, n, d)

\* ActuaryOutputParser.parse
ActuaryOutputParser_parse(text) ==
    IF text.json # None
    THEN [premium                 |-> Get(text.json, "premium", F(0, 0)),
          risk_score              |-> Get(text.json, "risk_score", F(5, 1)),
          delay_probability       |-> Get(text.json, "delay_probability", F(3, 1)),
          delay_threshold_minutes |-> Get(text.json, "delay_threshold_minutes", 30),
          payout_multiplier       |-> Get(text.json, "payout_multiplier", F(15, 1)),
          reasoning               |-> Get(text.json, "reasoning", <<>>)]
    ELSE [premium                 |-> IF text.numbers # <<>> THEN text.numbers[1]
                                      ELSE F(10, 0),
          risk_score              |-> F(5, 1),
          delay_probability       |-> F(3, 1),
          delay_threshold_minutes |-> 30,
          payout_multiplier       |-> F(15, 1),
          reasoning               |-> text.raw]

FloatMin(x, y) ==
    CHOOSE r \in {IF FloatLess(b, a) THEN b ELSE a : a \in {x}, b \in {y}} : TRUE

FloatMax(x, y) ==
    CHOOSE r \in {IF FloatLess(a, b) THEN b ELSE a : a \in {x}, b \in {y}} : TRUE

\* _mock_analysis with the probability spread over hash % 40 hundredths
mock_analysis_WideProbability(flight_number, h, hd) ==
  CHOOSE r \in {
    LET rs0          == FloatAdd(dp0, F(hd % 20, 2))
        threshold    == IF FloatLess(F(4, 1), dp0) THEN 15
                        ELSE IF FloatLess(F(3, 1), dp0) THEN 30
                        ELSE 45
        pm0          == FloatAdd(F(1, 0), FloatMul(dp0, F(15, 1)))
        risk_score   == FloatMin(F(1, 0), FloatMax(F(0, 0), rs0))
        dp           == FloatMin(F(1, 0), FloatMax(F(0, 0), dp0))
        pm           == FloatMin(F(3, 0), FloatMax(F(1, 0), pm0))
    IN  [premium                 |-> base_premium,
         risk_score              |-> risk_score,
         delay_probability       |-> dp,
         delay_threshold_minutes |-> threshold,
         payout_multiplier       |-> pm,
         reasoning               |-> [mock_reasoning |-> <<flight_number, dp, base_premium,
                                                          threshold, pm>>]]
    : base_premium \in {FloatAdd(F(10, 0), FloatOfInt(PyInt(FALSE, BigOfInt(h % 40))))},
      dp0          \in {FloatAdd(F(2, 1), F(h % 40, 2))}} : TRUE

\* FlightRiskAnalyzer._mock_analysis, with h = hash(flight_number) and
\* hd = hash(flight_date)
mock_analysis(flight_number, h, hd) ==
  CHOOSE r \in {
    LET rs0          == FloatAdd(dp0, F(hd % 20, 2))
        threshold    == IF FloatLess(F(4, 1), dp0) THEN 15
                        ELSE IF FloatLess(F(3, 1), dp0) THEN 30
                        ELSE 45
        pm0          == FloatAdd(F(1, 0), FloatMul(dp0, F(15, 1)))
        risk_score   == FloatMin(F(1, 0), FloatMax(F(0, 0), rs0))
        dp           == FloatMin(F(1, 0), FloatMax(F(0, 0), dp0))
        pm           == FloatMin(F(3, 0), FloatMax(F(1, 0), pm0))
    IN  [premium                 |-> base_premium,
         risk_score              |-> risk_score,
         delay_probability       |-> dp,
         delay_threshold_minutes |-> threshold,
         payout_multiplier       |-> pm,
         reasoning               |-> [mock_reasoning |-> <<flight_number, dp, base_premium,
                                                          threshold, pm>>]]
    : base_premium \in {FloatAdd(F(10, 0), FloatOfInt(PyInt(FALSE, BigOfInt(h % 40))))},
      dp0          \in {FloatAdd(F(2, 1), F(h % 30, 2))}} : TRUE

\* FlightRiskAnalyzer.analyze_risk: the parsed LLM reply when the LLM is in
\* use and answers, the mock analysis otherwise
analyze_risk(self, flight_number, llm, h, hd) ==
    IF self.use_llm /\ llm.kind = "reply"
    THEN ActuaryOutputParser_parse(llm.text)
    ELSE mock_analysis(flight_number, h, hd)

(***************************************************************************)
(* The flight status client (aviation_api.py).  sh is                      *)
(* hash(flight_number + flight_date); api is what the HTTP call yields.    *)
(***************************************************************************)
\* a JSON number, and a Python str where None may stand instead
JInt(n) == [kind |-> "int", val |-> n]

PyStr(s) == [kind |-> "str", val |-> s]

\* x or 0, for x a JSON number or null
OrZero(x) == IF x = None THEN 0 ELSE x.val

\* AviationStackClient._mock_flight_status
mock_flight_status(flight_number, flight_date, sh) ==
    LET delay_minutes == sh % 120
        is_delayed    == delay_minutes > 15
    IN  [flight_number           |-> flight_number,
         departure_delay_minutes |-> IF is_delayed THEN delay_minutes ELSE 0,
         arrival_delay_minutes   |-> IF is_delayed THEN delay_minutes ELSE 0,
         is_delayed              |-> is_delayed,
         status                  |-> IF is_delayed THEN "delayed" ELSE "scheduled",
         data_source             |-> "mock"]

\* AviationStackClient._parse_flight_data; a departure or arrival that is
\* null makes the parse raise
parse_flight_data(flight_data) ==
    IF flight_data.departure = None \/ flight_data.arrival = None
    THEN Raise("AttributeError")
    ELSE LET dep_delay == OrZero(flight_data.departure.delay)
             arr_delay == OrZero(flight_data.arrival.delay)
         IN  Ok([flight_number           |-> flight_data.flight_iata,
                 departure_delay_minutes |-> dep_delay,
                 arrival_delay_minutes   |-> arr_delay,
                 is_delayed              |-> dep_delay > 0 \/ arr_delay > 0,
                 status                  |-> Get(flight_data, "flight_status", "unknown"),
                 data_source             |-> "aviationstack"])

\* get_flight_status with the parse outside the try block
get_flight_status_ParseUnguarded(self, flight_number, flight_date, api, sh) ==
    IF ~self.api_key THEN mock_flight_status(flight_number, flight_date, sh)
    ELSE IF api.kind = "data"
    THEN IF parse_flight_data(api.flight_data).ok
         THEN parse_flight_data(api.flight_data).val
         ELSE parse_flight_data(api.flight_data)
    ELSE mock_flight_status(flight_number, flight_date, sh)

\* AviationStackClient.get_flight_status
get_flight_status(self, flight_number, flight_date, api, sh) ==
    IF ~self.api_key THEN mock_flight_status(flight_number, flight_date, sh)
    ELSE IF api.kind = "data" /\ parse_flight_data(api.flight_data).ok
    THEN parse_flight_data(api.flight_data).val
    ELSE mock_flight_status(flight_number, flight_date, sh)

(***************************************************************************)
(* What the server is run on: environments, request bodies, replies of the *)
(* LLM, hash values and replies of the flight API.                         *)
(***************************************************************************)
MaxTicks == 2

ClockStart == 1700000000

Env(k, o, a, z) ==
    [PRIVATE_KEY |-> k, OPENAI_API_KEY |-> o, AVIATIONSTACK_API_KEY |-> a, TZ |-> z]

\* a key with and without 0x prefix, API keys set and unset, and local
\* zones at, east of and west of UTC
Environs ==
    {Env(<<"0", "x", "a", "1">>, TRUE, TRUE, 0),
     Env(<<"b", "2">>, FALSE, FALSE, 3600),
     Env(<<"0", "x", "a", "1">>, TRUE, FALSE, 0 - 18000)}

HolderMixed == <<"0", "x">> \o [i \in 1..40 |-> IF i % 2 = 1 THEN "A" ELSE "b"]

HolderNonHex == <<"0", "x">> \o Rep("Z", 40)

HolderShort == <<"0", "x", "1", "2">>

GoodDate == <<"2", "0", "2", "4", "-", "0", "1", "-", "1", "5">>

BadDate == <<"1", "5", "/", "0", "1", "/", "2", "0", "2", "4">>

FlightAA == <<"A", "A", "1">>

FlightBA == <<"B", "A", ":", "7">>

Body(h, f, d, dep) ==
    [user_address |-> h, flight_number |-> f, flight_date |-> d,
     departure_airport |-> dep, arrival_airport |-> None]

QuoteBodies ==
    {Body(HolderMixed, FlightAA, GoodDate, None),
     Body(Lower(HolderMixed), FlightAA, GoodDate, PyStr(<<"J", "F", "K">>)),
     Body(HolderMixed, FlightBA, GoodDate, None),
     Body(HolderNonHex, FlightAA, GoodDate, None),
     Body(HolderShort, FlightAA, GoodDate, None),
     Body(HolderMixed, FlightAA, BadDate, None)}

Pricing(premium, rs, dp, thr, pm) ==
    [premium |-> premium, risk_score |-> rs, delay_probability |-> dp,
     delay_threshold_minutes |-> thr, payout_multiplier |-> pm,
     reasoning |-> <<"o", "k">>]

JsonText(data) == [json |-> data, numbers |-> <<>>, raw |-> <<"{", "}">>]

\* replies of the LLM: well-formed pricing, a negative premium, non-finite
\* premiums, a premium that is no binary fraction, an object with only a
\* premium, a risk score outside [0,1], and prose with a number in it
LlmTexts ==
    {JsonText(Pricing(F(10, 0), F(35, 2), F(28, 2), 45, F(15, 1))),
     JsonText(Pricing(FloatOfDecimal(TRUE, 5, 0), F(35, 2), F(28, 2), 30, F(15, 1))),
     JsonText(Pricing(NaN, F(35, 2), F(28, 2), 30, F(15, 1))),
     JsonText(Pricing(Inf(FALSE), F(35, 2), F(28, 2), 30, F(15, 1))),
     JsonText(Pricing(F(7, 2), F(35, 2), F(28, 2), 30, F(2, 0))),
     JsonText([premium |-> F(255, 1)]),
     JsonText(Pricing(F(10, 0), F(15, 1), F(28, 2), 30, F(15, 1))),
     [json |-> None, numbers |-> <<F(125, 1)>>, raw |-> <<"1", "2", ".", "5">>]}

\* what the pricing collaborator meets in one request: the LLM call fails
\* or replies, hash(flight_number) and hash(flight_date) are some integers
PricingOutcomes ==
    {[llm |-> [kind |-> "reply", text |-> t], h |-> 0, hd |-> 0] : t \in LlmTexts}
    \cup {[llm |-> [kind |-> "error"], h |-> h, hd |-> hd] :
             h \in {0, 15, 25}, hd \in {0, 19}}

ApiFlight(dep, arr) ==
    [flight_iata |-> FlightAA, departure |-> [delay |-> dep], arrival |-> [delay |-> arr],
     flight_status |-> "active"]

ApiData(fd) == [kind |-> "data", flight_data |-> fd]

\* what the flight status client meets in one request: the HTTP call
\* fails, finds no flight, or returns a flight record (delays null or a
\* number; departure and arrival themselves null); and the value of
\* hash(flight_number + flight_date)
StatusOutcomes ==
    {[api |-> [kind |-> "error"], sh |-> sh] : sh \in {0, 15, 16, 29, 30, 45, 119}}
    \cup {[api |-> [kind |-> "empty"], sh |-> 16],
          [api |-> ApiData(ApiFlight(None, None)), sh |-> 0],
          [api |-> ApiData(ApiFlight(JInt(30), None)), sh |-> 0],
          [api |-> ApiData(ApiFlight(JInt(29), JInt(45))), sh |-> 0],
          [api |-> ApiData([flight_iata |-> FlightAA, departure |-> None,
                            arrival |-> None]), sh |-> 30]}

VerifyBodies ==
    {[flight_number |-> f, flight_date |-> GoodDate, contract_address |-> ZeroAddress,
      user_address |-> HolderMixed] : f \in {FlightAA, FlightBA}}

(***************************************************************************)
(* The functions of the request path, tabulated over the values above, so  *)
(* that each value is computed once.                                       *)
(***************************************************************************)
Range(f) == {f[x] : x \in DOMAIN f}

ValidatedRequest == [body \in QuoteBodies |-> QuoteRequest(body)]

AnalysisOf ==
    [use_llm \in BOOLEAN, f \in {b.flight_number : b \in QuoteBodies},
     o \in PricingOutcomes |-> analyze_risk([use_llm |-> use_llm], f, o.llm, o.h, o.hd)]

Premiums == {a.premium : a \in Range(AnalysisOf)}

WeiOf == [x \in Premiums |-> flr_to_wei(x)]

FlrOf == [w \in {r.val : r \in {q \in Range(WeiOf) : q.ok}} |-> wei_to_flr(w)]

ChecksumOf ==
    [a \in {ValidatedRequest[b].val.user_address :
               b \in {c \in QuoteBodies : ValidatedRequest[c].ok}} |->
        to_checksum_address(a)]

\* QuoteSigner.sign_quote
sign_quote(self, user_address, flight_id, premium_amount_wei, deadline) ==
    LET checksummed == ChecksumOf[user_address]
    IN  IF ~checksummed.ok THEN checksummed
        ELSE LET message == [userAddress   |-> checksummed.val,
                             flightId      |-> flight_id,
                             premiumAmount |-> premium_amount_wei,
                             deadline      |-> deadline]
                 encoded == encode_structured_data(GetDomainSeparator(self), message)
             IN  IF ~encoded.ok THEN encoded
                 ELSE Ok(SignMessage(encoded.val, self.private_key))

(***************************************************************************)
(* The request handlers (main.py).                                         *)
(***************************************************************************)
DefaultChainId == 114

DeadlineHours == 24

DefaultThreshold == 30

HttpError(status, step, exc) ==
    [kind |-> "error", status |-> status, step |-> step, exc |-> exc]

\* except ValueError -> 400, except Exception -> 500
StatusOf(exc) == IF exc = "ValueError" THEN 400 ELSE 500

\* create_quote answering with a placeholder signature when signing raised
QuoteResult_Placeholder(signed, premium_wei, deadline, flight_id, risk_analysis) ==
  CHOOSE result \in {
    [kind   |-> "quote",
     status |-> 200,
     body   |-> [premium                 |-> FlrOf[premium_wei],
                 deadline                |-> deadline,
                 signature               |-> IF sg.ok THEN sg.val
                                             ELSE PyStr(<<"0", "x">>),
                 flight_id               |-> flight_id,
                 risk_score              |-> risk_analysis.risk_score,
                 delay_probability       |-> risk_analysis.delay_probability,
                 delay_threshold_minutes |->
                     Get(risk_analysis, "delay_threshold_minutes", DefaultThreshold),
                 payout_multiplier       |->
                     Get(risk_analysis, "payout_multiplier", F(15, 1)),
                 message                 |-> Get(risk_analysis, "reasoning", <<>>)]]
    : sg \in {signed}} : TRUE

\* create_quote, lines 165-190: the signed quote, or the error response
\* when sign_quote raised
QuoteResult(signed, premium_wei, deadline, flight_id, risk_analysis) ==
  \* the result of sign_quote is computed once
  CHOOSE result \in {
    IF ~sg.ok THEN HttpError(StatusOf(sg.exc), "sign_quote", sg.exc)
    ELSE [kind   |-> "quote",
          status |-> 200,
          body   |-> [premium                 |-> FlrOf[premium_wei],
                      deadline                |-> deadline,
                      signature               |-> sg.val,
                      flight_id               |-> flight_id,
                      risk_score              |-> risk_analysis.risk_score,
                      delay_probability       |-> risk_analysis.delay_probability,
                      delay_threshold_minutes |->
                          Get(risk_analysis, "delay_threshold_minutes", DefaultThreshold),
                      payout_multiplier       |->
                          Get(risk_analysis, "payout_multiplier", F(15, 1)),
                      message                 |-> Get(risk_analysis, "reasoning", <<>>)]]
    : sg \in {signed}} : TRUE

\* create_quote answering with the default threshold and multiplier in
\* place of the priced ones
create_quote_Defaults(signer, request, risk_analysis, clock, utcoffset) ==
    CHOOSE result \in
        {IF ~premium_wei.ok
         THEN [response  |-> HttpError(StatusOf(premium_wei.exc), "flr_to_wei",
                                       premium_wei.exc),
               sign_args |-> None]
         ELSE [response  |-> QuoteResult(sign_quote(signer, request.user_address,
                                                    flight_id, premium_wei.val, deadline),
                                         premium_wei.val, deadline, flight_id,
                                         [premium           |-> risk_analysis.premium,
                                          risk_score        |-> risk_analysis.risk_score,
                                          delay_probability |->
                                              risk_analysis.delay_probability]),
               sign_args |-> [user_address       |-> request.user_address,
                              flight_id          |-> flight_id,
                              premium_amount_wei |-> premium_wei.val,
                              deadline           |-> deadline]]
         : premium_wei \in {WeiOf[risk_analysis.premium]},
           flight_id   \in {create_flight_id(signer, request.flight_number,
                                             request.flight_date, request.user_address)},
           deadline    \in {calculate_deadline(clock, utcoffset, DeadlineHours)}} : TRUE

\* create_quote, lines 136-171, for a validated request: the response and
\* the arguments sign_quote was called with (None when it was not called)
create_quote(signer, request, risk_analysis, clock, utcoffset) ==
    CHOOSE result \in
        {IF ~premium_wei.ok
         THEN [response  |-> HttpError(StatusOf(premium_wei.exc), "flr_to_wei",
                                       premium_wei.exc),
               sign_args |-> None]
         ELSE [response  |-> QuoteResult(sign_quote(signer, request.user_address,
                                                    flight_id, premium_wei.val, deadline),
                                         premium_wei.val, deadline, flight_id,
                                         risk_analysis),
               sign_args |-> [user_address       |-> request.user_address,
                              flight_id          |-> flight_id,
                              premium_amount_wei |-> premium_wei.val,
                              deadline           |-> deadline]]
         : premium_wei \in {WeiOf[risk_analysis.premium]},
           flight_id   \in {create_flight_id(signer, request.flight_number,
                                             request.flight_date, request.user_address)},
           deadline    \in {calculate_deadline(clock, utcoffset, DeadlineHours)}} : TRUE

\* verify_contract, lines 211-242
verify_contract(flight_data) ==
    LET condition_check == check_contract_conditions(flight_data, DefaultThreshold)
        payout_amount   == IF condition_check.payout_eligible THEN PyStr(<<"0">>) ELSE None
    IN  [kind   |-> "verification",
         status |-> 200,
         body   |-> [condition_met     |-> condition_check.condition_met,
                     delay_minutes     |-> condition_check.delay_minutes,
                     threshold_minutes |-> condition_check.threshold_minutes,
                     payout_eligible   |-> condition_check.payout_eligible,
                     flight_status     |-> condition_check.flight_status,
                     payout_amount     |-> payout_amount]]

(***************************************************************************)
(* The server: startup, the three endpoints and the passing of time.       *)
(***************************************************************************)
Init ==
    /\ environ \in Environs
    /\ quote_signer = None
    /\ risk_analyzer = None
    /\ aviation_client = None
    /\ now = ClockStart
    /\ resp = None
    /\ twin = None
    /\ call = None
    /\ ret = None

\* a startup that can run again and then builds the signer for chain 14
Lifespan_Again ==
    /\ quote_signer' = QuoteSignerInit(environ.PRIVATE_KEY, DefaultDomainName, <<"1">>,
                                       IF quote_signer = None THEN DefaultChainId
                                       ELSE 14)
    /\ \E llm_ok \in BOOLEAN :
          risk_analyzer' = [use_llm |-> environ.OPENAI_API_KEY /\ llm_ok]
    /\ aviation_client' = [api_key |-> environ.AVIATIONSTACK_API_KEY]
    /\ UNCHANGED <<environ, now, resp, twin, call, ret>>

\* lifespan: the startup half, run once; ChatOpenAI may fail to initialise
Lifespan ==
    /\ quote_signer = None
    /\ quote_signer' = QuoteSignerInit(environ.PRIVATE_KEY, DefaultDomainName, <<"1">>,
                                       DefaultChainId)
    /\ \E llm_ok \in BOOLEAN :
          risk_analyzer' = [use_llm |-> environ.OPENAI_API_KEY /\ llm_ok]
    /\ aviation_client' = [api_key |-> environ.AVIATIONSTACK_API_KEY]
    /\ UNCHANGED <<environ, now, resp, twin, call, ret>>

\* two quote responses issued on the same holder, flight number, flight
\* date, pricing result and deadline
SameIssuance(r1, r2) ==
    /\ r1.kind = "quote" /\ r2.kind = "quote"
    /\ r1.sign_args.user_address = r2.sign_args.user_address
    /\ r1.request.flight_number = r2.request.flight_number
    /\ r1.request.flight_date = r2.request.flight_date
    /\ r1.analysis = r2.analysis
    /\ r1.body.deadline = r2.body.deadline

\* POST /api/v1/quote.  The response is recorded with what it was computed
\* from: the request body, the pricing result, the clock reading and the
\* arguments sign_quote received.
CreateQuote ==
    \E body \in QuoteBodies, o \in PricingOutcomes :
        /\ \E request \in {ValidatedRequest[body]} :
             resp' =
               IF quote_signer = None \/ risk_analyzer = None
               THEN HttpError(503, "depends", "HTTPException") @@ [request |-> body]
               ELSE IF ~request.ok
               THEN HttpError(422, "validation", "ValidationError") @@ [request |-> body]
               ELSE CHOOSE response \in
                        {result.response @@
                         [request |-> body, analysis |-> analysis, clock |-> now,
                          sign_args |-> result.sign_args]
                         : <<analysis, result>> \in
                             {<<a, create_quote(quote_signer, request.val, a, now,
                                                environ.TZ)>>
                              : a \in {AnalysisOf[risk_analyzer.use_llm,
                                                  request.val.flight_number, o]}}} : TRUE
        /\ twin' = IF SameIssuance(resp, resp') THEN resp.body.signature ELSE None
        /\ UNCHANGED <<environ, quote_signer, risk_analyzer, aviation_client, now,
                       call, ret>>

\* a signer-address handler that also moves the signer to chain 1
GetSignerAddress_Rechain ==
    /\ resp' =
         IF quote_signer = None THEN HttpError(503, "depends", "HTTPException")
         ELSE [kind   |-> "signer_address",
               status |-> 200,
               body   |-> [signer_address |-> get_signer_address(quote_signer),
                           chain_id       |-> quote_signer.chain_id]]
    /\ twin' = None
    /\ quote_signer' = IF quote_signer = None THEN quote_signer
                       ELSE [quote_signer EXCEPT !.chain_id = 1]
    /\ UNCHANGED <<environ, risk_analyzer, aviation_client, now, call, ret>>

\* GET /api/v1/signer-address
GetSignerAddress ==
    /\ resp' =
         IF quote_signer = None THEN HttpError(503, "depends", "HTTPException")
         ELSE [kind   |-> "signer_address",
               status |-> 200,
               body   |-> [signer_address |-> get_signer_address(quote_signer),
                           chain_id       |-> quote_signer.chain_id]]
    /\ twin' = None
    /\ UNCHANGED <<environ, quote_signer, risk_analyzer, aviation_client, now, call, ret>>

\* POST /api/v1/verify-contract
VerifyContract ==
    \E body \in VerifyBodies, o \in StatusOutcomes :
        /\ resp' =
             IF aviation_client = None
             THEN HttpError(503, "depends", "HTTPException") @@ [request |-> body]
             ELSE verify_contract(get_flight_status(aviation_client, body.flight_number,
                                                    body.flight_date, o.api, o.sh))
                  @@ [request |-> body]
        /\ twin' = None
        /\ UNCHANGED <<environ, quote_signer, risk_analyzer, aviation_client, now,
                       call, ret>>

Tick ==
    /\ now < ClockStart + MaxTicks
    /\ now' = now + 1
    /\ UNCHANGED <<environ, quote_signer, risk_analyzer, aviation_client, resp, twin,
                   call, ret>>

Next == Lifespan \/ CreateQuote \/ GetSignerAddress \/ VerifyContract \/ Tick

Spec == Init /\ [][Next]_vars

(***************************************************************************)
(* Properties of the server.                                               *)
(***************************************************************************)
\* C2: a verification that follows the quote for the same flight and date
\* reports as payout the quoted premium in wei times the quoted multiplier,
\* truncated, when the delay condition is met, and 0 (or no amount) when it
\* is not.
C2_PayoutIsPremiumTimesMultiplier ==
    [][(/\ resp.kind = "quote"
        /\ resp'.kind = "verification"
        /\ resp'.request.flight_number = resp.request.flight_number
        /\ resp'.request.flight_date = resp.request.flight_date)
       => LET premium_wei == resp.sign_args.premium_amount_wei
              multiplier  == resp.body.payout_multiplier
              product     == BigMul(premium_wei.mag, multiplier.m)
              truncated   == PyInt(premium_wei.neg # multiplier.neg,
                                   IF multiplier.e >= 0
                                   THEN BigShl(product, multiplier.e)
                                   ELSE BigShr(product, 0 - multiplier.e))
          IN  IF resp'.body.condition_met
              THEN resp'.body.payout_amount = PyStr(StrOfInt(truncated))
              ELSE resp'.body.payout_amount \in {None, PyStr(<<"0">>)}]_vars

\* C4: a quote request whose pricing result carries a negative or
\* non-finite premium fails in the conversion to wei, and sign_quote is not
\* called for it.
C4_InvalidAmountRejected ==
    (/\ resp.kind \in {"quote", "error"}
     /\ "analysis" \in DOMAIN resp
     /\ (resp.analysis.premium.cls # "fin" \/ resp.analysis.premium.neg))
    => /\ resp.kind = "error"
       /\ resp.step = "flr_to_wei"
       /\ resp.sign_args = None

\* C7: the signature of every issued quote recovers, over the typed-data
\* digest of the domain {name, version, chainId, zero verifyingContract} and
\* the message (holder, flightId, premium, deadline) that sign_quote was
\* given, to the address get_signer_address returns for the same signer.
C7_SignatureRecoversToSigner ==
    resp.kind = "quote" =>
        LET a       == resp.sign_args
            domain  == [name              |-> quote_signer.domain_name,
                        version           |-> quote_signer.version,
                        chainId           |-> quote_signer.chain_id,
                        verifyingContract |-> ZeroAddress]
            message == [userAddress   |-> to_checksum_address(a.user_address).val,
                        flightId      |-> a.flight_id,
                        premiumAmount |-> a.premium_amount_wei,
                        deadline      |-> a.deadline]
            digest  == encode_structured_data(domain, message)
        IN  /\ digest.ok
            /\ RecoverMessage(digest.val, resp.body.signature)
                   = get_signer_address(quote_signer)
            /\ get_signer_address(quote_signer) # [address_of |-> <<"?">>]

\* a quote was issued by a signer whose key was configured without the 0x
\* prefix, for a holder sent in mixed case
C7_Witness ==
    /\ resp.kind = "quote"
    /\ ~StartsWith(environ.PRIVATE_KEY, <<"0", "x">>)
    /\ resp.request.user_address # resp.sign_args.user_address
    /\ resp.status = 200

\* C8: a quote issued right after another with the same holder, flight
\* number, flight date, pricing result and deadline carries the same
\* signature.
C8_SameInputsSameSignature ==
    twin # None => (resp.kind = "quote" /\ resp.body.signature = twin)

\* two quotes in a row on identical inputs, the second of which is the
\* current response
C8_Witness ==
    /\ twin # None
    /\ resp.kind = "quote"
    /\ resp.clock = ClockStart + 1

\* C9: the deadline of an issued quote lies 24 hours after the Unix time at
\* which it was issued, to within one second, in every local time zone.
C9_DeadlineIsNowPlus24h ==
    resp.kind = "quote" =>
        /\ resp.body.deadline - resp.clock >= DeadlineHours * 3600 - 1
        /\ resp.body.deadline - resp.clock <= DeadlineHours * 3600

\* C10: a failure of the premium conversion or of signing ends the request
\* in an error response without a quote, and every quote response carries a
\* signature made by the signer's key over that quote's flight identifier,
\* premium and deadline.
C10_FailureYieldsNoQuote ==
    /\ resp.kind = "error" => "body" \notin DOMAIN resp
    /\ (resp.kind \in {"quote", "error"} /\ "analysis" \in DOMAIN resp) =>
           LET wei == flr_to_wei(resp.analysis.premium)
           IN  IF ~wei.ok
               THEN resp.kind = "error" /\ resp.status \in {400, 500}
               ELSE LET a == resp.sign_args
                        signed == sign_quote(quote_signer, a.user_address, a.flight_id,
                                             a.premium_amount_wei, a.deadline)
                    IN  ~signed.ok =>
                            (resp.kind = "error" /\ resp.status \in {400, 500})
    /\ resp.kind = "quote" =>
           LET sig == resp.body.signature
           IN  /\ DOMAIN sig = {"signed_by", "digest"}
               /\ sig.signed_by = Scalar(quote_signer.private_key)
               /\ sig.digest.message.flightId = resp.body.flight_id
               /\ sig.digest.message.deadline = resp.body.deadline
               /\ StrOfInt(sig.digest.message.premiumAmount) = resp.body.premium

\* signing raised inside create_quote and the request ended in an error
C10_Witness ==
    /\ resp.kind = "error"
    /\ resp.step = "sign_quote"
    /\ resp.sign_args # None
    /\ "body" \notin DOMAIN resp

\* C11: a quote request whose pricing result has a risk score or a delay
\* probability outside [0,1] ends in a 400 error before sign_quote is
\* called, and no quote is returned with such a value.
C11_OutOfRangePricingRejected ==
    (/\ resp.kind \in {"quote", "error"}
     /\ "analysis" \in DOMAIN resp
     /\ \E x \in {resp.analysis.risk_score, resp.analysis.delay_probability} :
           x.cls # "fin" \/ x.neg \/ FloatLess(F(1, 0), x))
    => /\ resp.kind = "error"
       /\ resp.status = 400
       /\ resp.sign_args = None

\* C12: every returned quote carries the risk score, delay probability,
\* delay threshold, payout multiplier and rationale of the pricing result
\* the analyzer gave for that request, each unchanged and none replaced by
\* a default.
C12_PricingPassedThrough ==
    resp.kind = "quote" =>
        /\ DOMAIN resp.analysis = {"premium", "risk_score", "delay_probability",
                                   "delay_threshold_minutes", "payout_multiplier",
                                   "reasoning"}
        /\ resp.body.risk_score = resp.analysis.risk_score
        /\ resp.body.delay_probability = resp.analysis.delay_probability
        /\ resp.body.delay_threshold_minutes = resp.analysis.delay_threshold_minutes
        /\ resp.body.payout_multiplier = resp.analysis.payout_multiplier
        /\ resp.body.message = resp.analysis.reasoning

\* a quote whose pricing result has a threshold other than 30, a multiplier
\* other than 1.5 and a non-empty rationale
C12_Witness ==
    /\ resp.kind = "quote"
    /\ resp.analysis.delay_threshold_minutes # DefaultThreshold
    /\ resp.analysis.payout_multiplier # F(15, 1)
    /\ resp.analysis.reasoning # <<>>
    /\ resp.body.delay_threshold_minutes = 45

\* C13: once startup has run, no step changes the environment, the signer,
\* the analyzer or the aviation client, and whatever requests were handled
\* before it, every response is the one the handler gives on the objects as
\* startup constructed them for the same request, pricing result, flight
\* status and clock reading.
C13_RequestsShareNothingMutable ==
    [][/\ quote_signer # None =>
              UNCHANGED <<environ, quote_signer, risk_analyzer, aviation_client>>
       /\ resp'.kind \in {"quote", "signer_address"} =>
              \E fresh \in {QuoteSignerInit(environ.PRIVATE_KEY, DefaultDomainName,
                                            <<"1">>, DefaultChainId)} :
                  IF resp'.kind = "quote"
                  THEN resp'.body =
                           create_quote(fresh, ValidatedRequest[resp'.request].val,
                                        resp'.analysis, resp'.clock,
                                        environ.TZ).response.body
                  ELSE resp'.body = [signer_address |-> get_signer_address(fresh),
                                     chain_id       |-> DefaultChainId]
       /\ resp'.kind = "verification" =>
              \E o \in StatusOutcomes :
                  resp'.body =
                      verify_contract(
                          get_flight_status([api_key |-> environ.AVIATIONSTACK_API_KEY],
                                            resp'.request.flight_number,
                                            resp'.request.flight_date,
                                            o.api, o.sh)).body]_vars

\* a quote answered right after another quote and after the clock moved,
\* with the signer, analyzer and client still as startup made them
C13_Witness ==
    /\ resp.kind = "quote"
    /\ twin # None
    /\ now = ClockStart + MaxTicks
    /\ quote_signer = QuoteSignerInit(environ.PRIVATE_KEY, DefaultDomainName, <<"1">>,
                                      DefaultChainId)
    /\ risk_analyzer # None
    /\ aviation_client = [api_key |-> environ.AVIATIONSTACK_API_KEY]

(***************************************************************************)
(* The two canonicalisations of a holder address applied on their own.     *)
(***************************************************************************)
AddrChars == {"a", "B", "c", "F", "0", "9"}

\* addresses of 42 characters with prefix 0x or 0X and digits and letters
\* of both cases, and malformed ones
AddrSamples ==
    {prefix \o [i \in 1..40 |-> IF i % 2 = 1 THEN c1 ELSE c2] :
        prefix \in {<<"0", "x">>, <<"0", "X">>}, c1 \in AddrChars, c2 \in AddrChars}
    \cup {HolderMixed, HolderNonHex, HolderShort}

InitAddr ==
    /\ ServerIdle
    /\ call \in {[fn |-> fn, address |-> a] :
                    fn \in {"validate_address", "to_checksum_address"},
                    a \in AddrSamples}
    /\ ret = Pending

Apply_validate_address ==
    /\ call.fn = "validate_address"
    /\ ret = Pending
    /\ ret' = validate_address(call.address)
    /\ UNCHANGED <<serverVars, call>>

Apply_to_checksum_address ==
    /\ call.fn = "to_checksum_address"
    /\ ret = Pending
    /\ ret' = to_checksum_address(call.address)
    /\ UNCHANGED <<serverVars, call>>

NextAddr == Apply_validate_address \/ Apply_to_checksum_address

SpecAddr == InitAddr /\ [][NextAddr]_vars

\* C14: an address the validator accepts is accepted again in its
\* lowercased form and comes back unchanged; an address that checksums,
\* checksums again to the same string, and so does its lowercased form.
C14_CanonicalisationIdempotent ==
    /\ (call.fn = "validate_address" /\ ret # Pending /\ ret.ok) =>
           validate_address(ret.val) = ret
    /\ (call.fn = "to_checksum_address" /\ ret # Pending /\ ret.ok) =>
           /\ to_checksum_address(ret.val) = ret
           /\ to_checksum_address(Lower(call.address)) = ret
           /\ validate_address(call.address).ok =>
                  to_checksum_address(validate_address(call.address).val) = ret

\* a mixed-case address was checksummed to a string that is neither the
\* address as sent nor its lowercased form
C14_Witness ==
    /\ call.fn = "to_checksum_address"
    /\ ret # Pending
    /\ ret.ok
    /\ call.address # Lower(call.address)
    /\ ret.val # call.address
    /\ ret.val # Lower(call.address)
    /\ validate_address(call.address).ok

\* C15: once the server is initialised, a quote request whose holder is
\* not 0x followed by 40 hex digits is answered with a client error (422
\* from validation or 400) and neither a quote nor a signature.
C15_MalformedHolderRejected ==
    (/\ resp.kind \in {"quote", "error"}
     /\ "request" \in DOMAIN resp
     /\ quote_signer # None
     /\ risk_analyzer # None
     /\ \/ ~IsHexAddress(resp.request.user_address)
        \/ ~StartsWith(resp.request.user_address, <<"0", "x">>))
    => /\ resp.kind = "error"
       /\ resp.status \in {400, 422}
       /\ "body" \notin DOMAIN resp

\* C16: a verification that follows the quote for the same flight and date
\* reports the quoted delay threshold as threshold_minutes and the
\* condition as met exactly when the observed delay is at least that
\* threshold.
C16_VerificationUsesQuotedThreshold ==
    [][(/\ resp.kind = "quote"
        /\ resp'.kind = "verification"
        /\ resp'.request.flight_number = resp.request.flight_number
        /\ resp'.request.flight_date = resp.request.flight_date)
       => /\ resp'.body.threshold_minutes = resp.body.delay_threshold_minutes
          /\ resp'.body.condition_met
                 <=> (resp'.body.delay_minutes >= resp.body.delay_threshold_minutes)]_vars

C18_SignerConstructedOnce ==
    [][/\ quote_signer' = None =>
              \/ resp' = None
              \/ resp'.kind = "error" /\ resp'.status = 503 /\ "body" \notin DOMAIN resp'
       /\ quote_signer' # quote_signer =>
              /\ quote_signer = None
              /\ resp' = resp
              /\ quote_signer' = QuoteSignerInit(environ.PRIVATE_KEY, DefaultDomainName,
                                                 <<"1">>, DefaultChainId)
       /\ quote_signer # None =>
              /\ quote_signer' = quote_signer
              /\ get_signer_address(quote_signer') = get_signer_address(quote_signer)
              /\ quote_signer'.chain_id = quote_signer.chain_id
              /\ resp'.kind = "signer_address" =>
                     /\ resp'.body.signer_address = get_signer_address(quote_signer)
                     /\ resp'.body.chain_id = quote_signer.chain_id]_vars

\* the signer is constructed, and the last response is the 503 a quote
\* request got before startup had run
C18_Witness ==
    /\ quote_signer # None
    /\ resp.kind = "error"
    /\ resp.status = 503
    /\ "request" \in DOMAIN resp
    /\ "departure_airport" \in DOMAIN resp.request
    /\ quote_signer.chain_id = DefaultChainId

(***************************************************************************)
(* get_flight_status applied on its own, with and without an API key, on   *)
(* every kind of reply of the flight API and hash values of both signs.    *)
(***************************************************************************)
MaxHash == 125

\* the HTTP call fails, finds no flight, or returns a flight whose delays
\* are null, zero, positive or negative, or whose departure is null
ApiReplies ==
    {[kind |-> "error"],
     [kind |-> "empty"],
     ApiData(ApiFlight(None, None)),
     ApiData(ApiFlight(JInt(30), None)),
     ApiData(ApiFlight(JInt(0), JInt(45))),
     ApiData(ApiFlight(JInt(0 - 5), None)),
     ApiData([flight_iata |-> FlightAA, departure |-> None, arrival |-> None])}

InitStatus ==
    /\ ServerIdle
    /\ call \in {[fn |-> "get_flight_status", self |-> [api_key |-> k],
                  flight_number |-> FlightAA, flight_date |-> GoodDate,
                  api |-> a, sh |-> sh] :
                    k \in BOOLEAN, a \in ApiReplies, sh \in (0 - MaxHash)..MaxHash}
    /\ ret = Pending

Apply_get_flight_status ==
    /\ call.fn = "get_flight_status"
    /\ ret = Pending
    /\ ret' = get_flight_status(call.self, call.flight_number, call.flight_date,
                                call.api, call.sh)
    /\ UNCHANGED <<serverVars, call>>

NextStatus == Apply_get_flight_status

SpecStatus == InitStatus /\ [][NextStatus]_vars

\* C19: get_flight_status always returns a status record; without an API
\* key, on a failed call, an empty result and a failed parse the record is
\* the mock one; every record has data_source aviationstack or mock and
\* departure and arrival delays that are integers >= 0, the mock ones 0 or
\* in 16..119.
C19_StatusRecordInRange ==
    (call.fn = "get_flight_status" /\ ret # Pending) =>
        /\ "data_source" \in DOMAIN ret
        /\ ret.data_source \in {"aviationstack", "mock"}
        /\ (\/ ~call.self.api_key
            \/ call.api.kind # "data"
            \/ ~parse_flight_data(call.api.flight_data).ok) => ret.data_source = "mock"
        /\ ret.departure_delay_minutes \in Nat
        /\ ret.arrival_delay_minutes \in Nat
        /\ ret.data_source = "mock" =>
               /\ ret.departure_delay_minutes \in {0} \cup 16..119
               /\ ret.arrival_delay_minutes = ret.departure_delay_minutes

\* C19, amended: as above, except that a record parsed from the API carries
\* the delays the API reported (null read as 0), which are integers >= 0
\* only when the API reports them so.
C19_StatusRecordOrMock ==
    (call.fn = "get_flight_status" /\ ret # Pending) =>
        /\ "data_source" \in DOMAIN ret
        /\ ret.data_source \in {"aviationstack", "mock"}
        /\ (\/ ~call.self.api_key
            \/ call.api.kind # "data"
            \/ ~parse_flight_data(call.api.flight_data).ok) => ret.data_source = "mock"
        /\ ret.data_source = "mock" =>
               /\ ret.departure_delay_minutes \in {0} \cup 16..119
               /\ ret.arrival_delay_minutes = ret.departure_delay_minutes
        /\ ret.data_source = "aviationstack" =>
               /\ call.self.api_key
               /\ ret.departure_delay_minutes = OrZero(call.api.flight_data.departure.delay)
               /\ ret.arrival_delay_minutes = OrZero(call.api.flight_data.arrival.delay)
               /\ (\A d \in {call.api.flight_data.departure.delay,
                             call.api.flight_data.arrival.delay} :
                       d = None \/ d.val >= 0)
                  => /\ ret.departure_delay_minutes \in Nat
                     /\ ret.arrival_delay_minutes \in Nat

\* with an API key, a reply whose departure is null made the parse fail and
\* the mock record with a delay of 16..119 minutes was returned
C19_Witness ==
    /\ call.fn = "get_flight_status"
    /\ ret # Pending
    /\ call.self.api_key
    /\ call.api.kind = "data"
    /\ ~parse_flight_data(call.api.flight_data).ok
    /\ call.sh < 0
    /\ ret.data_source = "mock"
    /\ ret.departure_delay_minutes \in 16..119

(***************************************************************************)
(* _mock_analysis applied on its own, over every residue of                *)
(* hash(flight_number) and hash(flight_date) and hash values below zero.   *)
(***************************************************************************)
InitMock ==
    /\ ServerIdle
    /\ call \in {[fn |-> "_mock_analysis", flight_number |-> FlightAA, h |-> h, hd |-> hd] :
                    h \in (0 - 3)..MaxHash, hd \in (0 - 1)..20}
    /\ ret = Pending

Apply_mock_analysis ==
    /\ call.fn = "_mock_analysis"
    /\ ret = Pending
    /\ ret' = mock_analysis(call.flight_number, call.h, call.hd)
    /\ UNCHANGED <<serverVars, call>>

NextMock == Apply_mock_analysis

SpecMock == InitMock /\ [][NextMock]_vars

\* C20: the record _mock_analysis returns has a premium in [10, 49], a
\* delay probability in [0.2, 0.49], a risk score in [0, 1] that is not
\* below the delay probability, a payout multiplier in [1, 3], and the
\* threshold 15 for a probability above 0.4, 30 for one above 0.3 and at
\* most 0.4, and 45 otherwise.
C20_MockAnalysisInRange ==
    (call.fn = "_mock_analysis" /\ ret # Pending) =>
        \E premium \in {ret.premium}, dp \in {ret.delay_probability},
           rs \in {ret.risk_score}, pm \in {ret.payout_multiplier} :
            /\ \A x \in {premium, dp, rs, pm} : x.cls = "fin" /\ ~x.neg
            /\ ~FloatLess(premium, F(10, 0)) /\ ~FloatLess(F(49, 0), premium)
            /\ ~FloatLess(dp, F(2, 1)) /\ ~FloatLess(F(49, 2), dp)
            /\ ~FloatLess(F(1, 0), rs) /\ ~FloatLess(rs, dp)
            /\ ~FloatLess(pm, F(1, 0)) /\ ~FloatLess(F(3, 0), pm)
            /\ ret.delay_threshold_minutes =
                   IF FloatLess(F(4, 1), dp) THEN 15
                   ELSE IF FloatLess(F(3, 1), dp) THEN 30
                   ELSE 45

\* a hash with residue 10 modulo 30: the probability 0.2 + 0.1 comes out
\* just above 0.3 and the threshold is 30
C20_Witness ==
    /\ call.fn = "_mock_analysis"
    /\ ret # Pending
    /\ call.h % 30 = 10
    /\ ret.delay_probability # F(3, 1)
    /\ ret.delay_threshold_minutes = 30
    /\ call.hd = 19

====
